---- MODULE Spec2Model ----
(***************************************************************************)
(* A model of the two notebooks of 2023-02-Python-process-large-files:     *)
(*   create-sample-json-gz-files.ipynb  the scraper that extracts colour   *)
(*       records from web pages and writes one .json.gz file per family;   *)
(*   python-process-s3-files.ipynb      the reader that lists the keys of  *)
(*       an S3 prefix, downloads, decompresses and parses each object and  *)
(*       filters the records with is_colour_reddish and is_colour_muted.   *)
(* Text is a sequence of one-character strings.  Python's None is the      *)
(* empty tuple <<>>: neither extractor can return an empty match (a hex    *)
(* match has 7 characters, an RGB match 3 integers).                       *)
(***************************************************************************)
EXTENDS Integers, Sequences, FiniteSets, TLC

VARIABLES
    \* the predicates applied to one colour
    colour, reddishOut, mutedOut, predPc,
    \* the extractors applied to one text
    text, hexOut, rgbOut, exPc,
    \* the reader (imperative loop over the listing generator)
    bucket, response, rpc, listIdx, yielded, s3_key, json_data, recIdx, result,
    \* the reader's functional pipeline
    ppc, pipeline_result, p_response, p_listIdx, p_yielded, p_key, p_json, p_recIdx, p_list,
    \* the scraper (main loop over colour_names, download_colour_data)
    spc, famIdx, page, paraIdx, generated, colours_with_ids_json,
    files, printed, nextId,
    \* a list of ColourId records written to a file and read back
    colour_ids, saved, loaded, tpc

predVars == <<colour, reddishOut, mutedOut, predPc>>
extractVars == <<text, hexOut, rgbOut, exPc>>
loopVars == <<response, rpc, listIdx, yielded, s3_key, json_data, recIdx, result>>
pipelineVars ==
    <<ppc, pipeline_result, p_response, p_listIdx, p_yielded, p_key, p_json, p_recIdx, p_list>>
readerVars == <<bucket, loopVars, pipelineVars>>
scraperVars == <<spc, famIdx, page, paraIdx, generated, colours_with_ids_json, files, printed, nextId>>
tripVars == <<colour_ids, saved, loaded, tpc>>
vars == <<predVars, extractVars, readerVars, scraperVars, tripVars>>

None == <<>>

(***************************************************************************)
(* Characters and the character classes of Python's re module.             *)
(***************************************************************************)
DigitChars == <<"0", "1", "2", "3", "4", "5", "6", "7", "8", "9">>
LowerChars == <<"a", "b", "c", "d", "e", "f", "g", "h", "i", "j", "k", "l", "m", "n", "o", "p", "q", "r", "s", "t", "u", "v", "w", "x", "y", "z">>
UpperChars == <<"A", "B", "C", "D", "E", "F", "G", "H", "I", "J", "K", "L", "M", "N", "O", "P", "Q", "R", "S", "T", "U", "V", "W", "X", "Y", "Z">>

Range(s) == {s[i] : i \in DOMAIN s}

\* \d
Digit == Range(DigitChars)
\* \s (the ASCII members: space, tab, newline, carriage return)
Space == {" ", "\t", "\n", "\r"}
\* [0-9a-fA-F]
HexDigit == Digit \cup {"a", "b", "c", "d", "e", "f"} \cup {"A", "B", "C", "D", "E", "F"}

\* the other case of a cased character, the character itself otherwise
SwapCase(c) ==
    IF c \in Range(LowerChars)
    THEN UpperChars[CHOOSE i \in DOMAIN LowerChars : LowerChars[i] = c]
    ELSE IF c \in Range(UpperChars)
    THEN LowerChars[CHOOSE i \in DOMAIN UpperChars : UpperChars[i] = c]
    ELSE c

\* re.IGNORECASE: a class matches a character when it holds either case of it
IgnoreCase(class) == class \cup {SwapCase(c) : c \in class}

(***************************************************************************)
(* A pattern is a sequence of items: a character class repeated between    *)
(* min and max times, greedily (max = -1: unbounded).                      *)
(***************************************************************************)
Item(class, lo, hi) == [class |-> class, min |-> lo, max |-> hi]
Lit(c) == Item(IgnoreCase({c}), 1, 1)
Star(class) == Item(IgnoreCase(class), 0, -1)
Rep(class, lo, hi) == Item(IgnoreCase(class), lo, hi)

NoMatch == [ok |-> FALSE, start |-> 0, ends |-> <<>>]

RECURSIVE RunLength(_, _, _, _)
\* how many characters from pos on are in the class, at most limit (-1: no limit)
RunLength(class, s, pos, limit) ==
    IF limit = 0 \/ pos > Len(s) \/ s[pos] \notin class
    THEN 0
    ELSE 1 + RunLength(class, s, pos + 1, IF limit = -1 THEN -1 ELSE limit - 1)

RECURSIVE MatchFrom(_, _, _, _)
RECURSIVE TryCount(_, _, _, _, _)
\* The backtracking matcher: item k takes as many characters as it can and
\* gives them back one at a time until the rest of the pattern matches.
\* ends[j] is the position after the text item k + j - 1 matched.
MatchFrom(pat, k, s, pos) ==
    IF k > Len(pat)
    THEN [ok |-> TRUE, start |-> 0, ends |-> <<>>]
    ELSE TryCount(pat, k, s, pos, RunLength(pat[k].class, s, pos, pat[k].max))

TryCount(pat, k, s, pos, n) ==
    IF n < pat[k].min
    THEN NoMatch
    ELSE LET rest == MatchFrom(pat, k + 1, s, pos + n)
         IN  IF rest.ok
             THEN [ok |-> TRUE, start |-> 0, ends |-> <<pos + n>> \o rest.ends]
             ELSE TryCount(pat, k, s, pos, n - 1)

RECURSIVE SearchFrom(_, _, _)
\* re.search: the match at the leftmost position that has one
SearchFrom(pat, s, pos) ==
    IF pos > Len(s) + 1
    THEN NoMatch
    ELSE LET m == MatchFrom(pat, 1, s, pos)
         IN  IF m.ok
             THEN [ok |-> TRUE, start |-> pos, ends |-> m.ends]
             ELSE SearchFrom(pat, s, pos + 1)

re_search(pat, s) == SearchFrom(pat, s, 1)

\* match.group(0): the whole match
Group0(s, m) == SubSeq(s, m.start, m.ends[Len(m.ends)] - 1)
\* the text item k of the pattern matched
ItemText(s, m, k) == SubSeq(s, IF k = 1 THEN m.start ELSE m.ends[k - 1], m.ends[k] - 1)

DigitValue(c) == (CHOOSE i \in DOMAIN DigitChars : DigitChars[i] = c) - 1

RECURSIVE int(_)
\* int() of a string of decimal digits
int(s) ==
    IF Len(s) = 0 THEN 0
    ELSE int(SubSeq(s, 1, Len(s) - 1)) * 10 + DigitValue(s[Len(s)])

(***************************************************************************)
(* The extractors of the scraper.                                          *)
(***************************************************************************)
\* mutant: r"#[0-9a-f]{6}" without re.IGNORECASE
hex_colour_pattern_lower ==
    <<Item({"#"}, 1, 1), Item(Digit \cup {"a", "b", "c", "d", "e", "f"}, 6, 6)>>
\* r"#[0-9a-fA-F]{6}"
hex_colour_pattern == <<Lit("#"), Rep(HexDigit, 6, 6)>>

\* mutant: r"rgb (\d{1,3}),\s*(\d{1,3}),\s*(\d{1,3})", one space after "rgb"
rgb_colour_pattern_one_space ==
    <<Lit("r"), Lit("g"), Lit("b"),
      Item({" "}, 1, 1), Rep(Digit, 1, 3), Lit(","),
      Star(Space), Rep(Digit, 1, 3), Lit(","),
      Star(Space), Rep(Digit, 1, 3)>>
\* r"rgb\s*(\d{1,3}),\s*(\d{1,3}),\s*(\d{1,3})": the groups are items 5, 8, 11
rgb_colour_pattern ==
    <<Lit("r"), Lit("g"), Lit("b"),
      Star(Space), Rep(Digit, 1, 3), Lit(","),
      Star(Space), Rep(Digit, 1, 3), Lit(","),
      Star(Space), Rep(Digit, 1, 3)>>

extract_hex_colour(s) ==
    LET match == re_search(hex_colour_pattern, s)
    IN  IF match.ok THEN Group0(s, match) ELSE None

\* mutant: a channel above 255 is refused
extract_rgb_colour_checked(s) ==
    LET match == re_search(rgb_colour_pattern, s)
    IN  IF ~match.ok
        THEN None
        ELSE LET red == int(ItemText(s, match, 5))
                 green == int(ItemText(s, match, 8))
                 blue == int(ItemText(s, match, 11))
             IN  IF red > 255 \/ green > 255 \/ blue > 255 THEN None
                 ELSE <<red, green, blue>>

extract_rgb_colour(s) ==
    LET match == re_search(rgb_colour_pattern, s)
    IN  IF ~match.ok
        THEN None
        ELSE LET red == int(ItemText(s, match, 5))
                 green == int(ItemText(s, match, 8))
                 blue == int(ItemText(s, match, 11))
             IN  <<red, green, blue>>

(***************************************************************************)
(* The predicates of the reader.  A colour's rgb is a 3-tuple, rgb[0] of   *)
(* the code is rgb[1] here.                                                *)
(***************************************************************************)
\* mutants: ">=" for ">"; the second comparison on the wrong channels
is_colour_reddish_ge(c) == c.rgb[1] >= c.rgb[2] /\ c.rgb[1] >= c.rgb[3]
is_colour_reddish_chain(c) == c.rgb[1] > c.rgb[2] /\ c.rgb[2] > c.rgb[3]
is_colour_reddish(c) == c.rgb[1] > c.rgb[2] /\ c.rgb[1] > c.rgb[3]

\* mutant: "<=" for "<"
is_colour_muted_le(c) == c.rgb[1] =< 128 /\ c.rgb[2] =< 128 /\ c.rgb[3] =< 128
is_colour_muted(c) == c.rgb[1] < 128 /\ c.rgb[2] < 128 /\ c.rgb[3] < 128

ColourId(id, name, base, hex, rgb) ==
    [id |-> id, name |-> name, base |-> base, hex |-> hex, rgb |-> rgb]

(***************************************************************************)
(* Bounds of the model and the inputs drawn within them.                   *)
(***************************************************************************)
\* channel values are taken this far around 0, the threshold 128 and 255
ChannelSpread == 1
\* the longest run of spaces a sample text puts after "rgb"
MaxSpaces == 2
\* the longest run of digits a sample text puts in a channel
MaxDigits == 4
\* the longest run of hex digits a sample text puts after "#"
MaxHexRun == 7

Spaces(n) == [i \in 1..n |-> " "]

ChannelSamples ==
    (0..ChannelSpread) \cup ((128 - ChannelSpread)..(128 + ChannelSpread))
        \cup ((255 - ChannelSpread)..255) \cup {4, 12, 24, 150, 342}

SampleHex == <<"#", "9", "6", "0", "0", "1", "8">>

\* the texts of the assertions that follow the extractors in the notebook
HexTestText ==
    <<"T", "h", "i", "s", " ", "t", "e", "x", "t", " ", "c", "o", "n", "t", "a", "i", "n",
      "s", " ", "a", " ", "c", "o", "l", "o", "r", " ", "c", "o", "d", "e", ":", " ", "#",
      "F", "F", "A", "5", "0", "0", " ", "a", "n", "d", " ", "m", "o", "r", "e", " ", "t",
      "e", "x", "t", " ", "a", "f", "t", "e", "r">>
NoHexTestText ==
    <<"N", "o", " ", "h", "e", "x", " ", "c", "o", "l", "o", "u", "r">>
RgbTestText ==
    <<"T", "h", "i", "s", " ", "t", "e", "x", "t", " ", "c", "o", "n", "t", "a", "i", "n",
      "s", " ", "a", " ", "c", "o", "l", "o", "r", " ", "c", "o", "d", "e", ":", " ", "r",
      "g", "b", " ", "1", ",", " ", "2", ",", " ", "3", "4", "2", " ", "a", "n", "d", " ",
      "m", "o", "r", "e", " ", "t", "e", "x", "t", " ", "a", "f", "t", "e", "r">>

\* "rgb", then white space, then three runs of digits with separators
RgbWords == {<<"r", "g", "b">>, <<"R", "g", "B">>, <<"r", "g", "x">>}
RgbPrefixes ==
    {<<>>,
     <<"r", "g", "b", " ", "9", ",", "8", " ">>,
     <<"R", "G", "B", " ", "7", ",", " ", "8", ",", " ", "9", " ">>}
WhiteRuns == {Spaces(n) : n \in 0..MaxSpaces} \cup {<<"\t">>, <<" ", "\n">>}
Separators == {<<",">>, <<",", " ">>, <<" ", ",">>}
RedDigits == <<"1", "5", "0", "7", "3", "9", "2", "6">>
GreenDigits == <<"2", "5", "5", "1", "0", "8", "4", "4">>
BlueDigits == <<"3", "4", "2", "5", "6", "0", "0", "1">>

RgbTexts ==
    {pre \o word \o ws \o SubSeq(RedDigits, 1, n1) \o sep1 \o SubSeq(GreenDigits, 1, n2)
        \o sep2 \o SubSeq(BlueDigits, 1, n3) :
        pre \in RgbPrefixes, word \in RgbWords, ws \in WhiteRuns, n1 \in 0..MaxDigits,
        sep1 \in Separators, n2 \in {1, MaxDigits}, sep2 \in {<<",">>, <<",", " ">>},
        n3 \in 0..MaxDigits}

\* "#", then a run of hex digits, one of them possibly not a hex digit
HexPrefixes ==
    {<<>>, <<"x">>,
     <<"#", "1", "2", "3", "4", "5", " ">>,
     <<"#", "a", "B", "c", "D", "e", "F", " ">>}
HexHashes == {<<>>, <<"#">>, <<"#", "#">>}
HexRunUpper == <<"F", "F", "A", "5", "0", "0", "B", "C", "9", "D">>
HexRunLower == <<"f", "f", "a", "5", "0", "0", "b", "c", "9", "d">>
Spoil(run, j) == [i \in DOMAIN run |-> IF i = j THEN "g" ELSE run[i]]

HexTexts ==
    {pre \o hash \o Spoil(SubSeq(run, 1, n), j) \o post :
        pre \in HexPrefixes, hash \in HexHashes, run \in {HexRunUpper, HexRunLower},
        n \in 0..MaxHexRun, j \in 0..MaxHexRun, post \in {<<>>, <<" ", "z">>}}

SampleTexts == RgbTexts \cup HexTexts \cup {HexTestText, NoHexTestText, RgbTestText}

(***************************************************************************)
(* The parts of the state a specification does not use stay as they are.   *)
(***************************************************************************)
PredIdle ==
    /\ colour = ColourId(0, <<>>, <<>>, SampleHex, <<0, 0, 0>>)
    /\ reddishOut = FALSE
    /\ mutedOut = FALSE
    /\ predPc = {}

ExtractIdle ==
    /\ text = <<>>
    /\ hexOut = None
    /\ rgbOut = None
    /\ exPc = {}

(***************************************************************************)
(* The predicates, each called once on a colour.                           *)
(***************************************************************************)
PredInit ==
    /\ colour \in {ColourId(0, <<>>, <<>>, SampleHex, <<r, g, b>>) :
                      r \in ChannelSamples, g \in ChannelSamples, b \in ChannelSamples}
    /\ reddishOut = FALSE
    /\ mutedOut = FALSE
    /\ predPc = {}

CallReddish ==
    /\ "reddish" \notin predPc
    /\ reddishOut' = is_colour_reddish(colour)
    /\ predPc' = predPc \cup {"reddish"}
    /\ UNCHANGED <<colour, mutedOut, extractVars, readerVars, scraperVars, tripVars>>

CallMuted ==
    /\ "muted" \notin predPc
    /\ mutedOut' = is_colour_muted(colour)
    /\ predPc' = predPc \cup {"muted"}
    /\ UNCHANGED <<colour, reddishOut, extractVars, readerVars, scraperVars, tripVars>>

(***************************************************************************)
(* The extractors, each called once on a text.                             *)
(***************************************************************************)
ExtractInit ==
    /\ text \in SampleTexts
    /\ hexOut = None
    /\ rgbOut = None
    /\ exPc = {}

CallExtractHex ==
    /\ "hex" \notin exPc
    /\ hexOut' = extract_hex_colour(text)
    /\ exPc' = exPc \cup {"hex"}
    /\ UNCHANGED <<text, rgbOut, predVars, readerVars, scraperVars, tripVars>>

CallExtractRgb ==
    /\ "rgb" \notin exPc
    /\ rgbOut' = extract_rgb_colour(text)
    /\ exPc' = exPc \cup {"rgb"}
    /\ UNCHANGED <<text, hexOut, predVars, readerVars, scraperVars, tripVars>>

(***************************************************************************)
(* The reader: python-process-s3-files.ipynb.                              *)
(***************************************************************************)
\* the most keys the bucket holds under the prefix
MaxKeys == 4
\* the most keys S3 puts in one list_objects_v2 response
PageSize == 3

FILE_PREFIX ==
    <<"2", "0", "2", "3", "-", "0", "2", "-", "1", "8", "/", "s", "m", "a", "l", "l", "-",
      "f", "i", "l", "e", "s", "/">>

\* the list of colours that are documented (the scraper's families, and
\* the names of the files it uploads)
colour_names ==
    <<<<"b", "l", "a", "c", "k">>,
      <<"b", "l", "u", "e">>,
      <<"g", "r", "a", "y">>,
      <<"g", "r", "e", "e", "n">>,
      <<"o", "r", "a", "n", "g", "e">>,
      <<"p", "i", "n", "k">>,
      <<"p", "u", "r", "p", "l", "e">>,
      <<"r", "e", "d">>,
      <<"y", "e", "l", "l", "o", "w">>>>

JsonGzSuffix ==
    <<".", "j", "s", "o", "n", ".", "g", "z">>

(***************************************************************************)
(* JSON.  A document is the tree of its tokens: a string keeps its         *)
(* characters, a number is its decimal digits, an array its items, an      *)
(* object its members in the order they were written.                      *)
(***************************************************************************)
JsonString(s) == [kind |-> "string", text |-> s]
JsonNumber(digits) == [kind |-> "number", text |-> digits]
JsonArray(items) == [kind |-> "array", items |-> items]
JsonObject(members) == [kind |-> "object", members |-> members]

RECURSIVE str(_)
\* the decimal digits json.dumps writes for an int
str(n) ==
    IF n < 0 THEN <<"-">> \o str(0 - n)
    ELSE IF n < 10 THEN <<DigitChars[n + 1]>>
    ELSE str(n \div 10) \o <<DigitChars[(n % 10) + 1]>>

\* json.dumps of a tuple of ints: an array of numbers
dumps_ints(t) == JsonArray([k \in DOMAIN t |-> JsonNumber(str(t[k]))])

\* json.dumps of the dict ColourId.toJSON builds: the keys in the order of
\* the dict, the id and the three texts as strings, the rgb tuple as an array
dumps_dict(d) ==
    LET keys == SelectSeq(<<"id", "name", "base", "hex", "rgb">>, LAMBDA k : k \in DOMAIN d)
    IN  JsonObject([i \in DOMAIN keys |->
            <<keys[i], IF keys[i] = "rgb" THEN dumps_ints(d[keys[i]])
                       ELSE JsonString(d[keys[i]])>>])

\* json.dumps(data, indent=2) of a list of dicts; .encode("utf-8") gives the
\* bytes of the same text
json_dumps(data) ==
    [json |-> TRUE, value |-> JsonArray([i \in DOMAIN data |-> dumps_dict(data[i])])]

\* the int json.loads makes of a number token
loads_number(digits) ==
    IF Head(digits) = "-" THEN 0 - int(Tail(digits)) ELSE int(digits)

\* the last member of an object with the key k (a later duplicate wins)
LastMember(members, k) ==
    LET at == {i \in DOMAIN members : members[i][1] = k}
    IN  members[CHOOSE i \in at : \A j \in at : j <= i][2]

RECURSIVE loads_value(_)
\* the Python value json.loads makes of a document: str, int, list, dict
loads_value(v) ==
    CASE v.kind = "string" -> v.text
      [] v.kind = "number" -> loads_number(v.text)
      [] v.kind = "array" -> [i \in DOMAIN v.items |-> loads_value(v.items[i])]
      [] v.kind = "object" ->
            [k \in {v.members[i][1] : i \in DOMAIN v.members} |->
                loads_value(LastMember(v.members, k))]

\* gzip.GzipFile(file_name, "w").write(json_bytes): the bytes of the file
gzip_compress(txt) == [gzip |-> TRUE, json |-> txt.json, value |-> txt.value]

\* What a file holds: whether the bytes are a gzip stream, whether the
\* decompressed text is JSON, and the document the text spells.
GzipOfJson(value) == gzip_compress(json_dumps(value))
NotGzip == [gzip |-> FALSE, json |-> FALSE, value |-> <<>>]
GzipOfNotJson == [gzip |-> TRUE, json |-> FALSE, value |-> <<>>]

\* arrays of rgb values for the records of a sample file
SampleShapes ==
    {<<>>,
     <<<<12, 4, 4>>, <<150, 0, 24>>, <<4, 12, 4>>, <<100, 20, 30>>>>,
     <<<<200, 200, 200>>, <<127, 0, 126>>, <<128, 0, 0>>, <<12, 12, 4>>>>}

SampleName(i, j) == <<"C", DigitChars[i + 1], DigitChars[j + 1]>>

\* the JSON array of a sample file of family i: one object per rgb value
SampleArray(i, shape) ==
    [j \in DOMAIN shape |->
        [id |-> 100 * i + j, name |-> SampleName(i, j), base |-> colour_names[i],
         hex |-> SampleHex, rgb |-> shape[j]]]

SampleBodies(i) == {GzipOfJson(SampleArray(i, shape)) : shape \in SampleShapes}
                       \cup {NotGzip, GzipOfNotJson}

\* the i-th key under the prefix: a file, or a folder placeholder (0 bytes)
FileEntries(i) ==
    {[Key |-> FILE_PREFIX \o colour_names[i] \o JsonGzSuffix, Body |-> body] :
        body \in SampleBodies(i)}
FolderEntry(i) == [Key |-> FILE_PREFIX \o colour_names[i] \o <<"/">>, Body |-> NotGzip]

\* the buckets: up to MaxKeys objects, in key order (the order S3 lists them)
RECURSIVE BucketsOfSize(_)
BucketsOfSize(n) ==
    IF n = 0 THEN {<<>>}
    ELSE {Append(b, e) : b \in BucketsOfSize(n - 1), e \in FileEntries(n) \cup {FolderEntry(n)}}

SampleBuckets == UNION {BucketsOfSize(n) : n \in 0..MaxKeys}

\* s3.list_objects_v2(Bucket=..., Prefix=...): one page of the keys; S3 leaves
\* "Contents" out of a response that lists no key
list_objects_v2(b) ==
    LET n == IF Len(b) < PageSize THEN Len(b) ELSE PageSize
    IN  IF n = 0
        THEN [KeyCount |-> 0, IsTruncated |-> FALSE]
        ELSE [KeyCount |-> n, IsTruncated |-> Len(b) > n,
              Contents |-> [i \in 1..n |-> [Key |-> b[i].Key]]]

\* response.get("Contents", [])
ResponseContents(r) == IF "Contents" \in DOMAIN r THEN r.Contents ELSE <<>>

\* mutant: "/" in key
EndsWithSlash_in(key) == \E i \in DOMAIN key : key[i] = "/"
\* key.endswith("/")
EndsWithSlash(key) == Len(key) >= 1 /\ key[Len(key)] = "/"

\* gzip.decompress(bytes) and json.loads(text), on bytes that are a gzip
\* stream of a JSON text
gzip_decompress(bytes) == [json |-> bytes.json, value |-> bytes.value]
json_loads(txt) == loads_value(txt.value)

\* s3.get_object(Bucket=..., Key=key)["Body"].read()
download_s3_file(b, key) == (CHOOSE e \in Range(b) : e.Key = key).Body

\* mutant: two positional arguments in the wrong order
create_colour_from_json_swapped(data) ==
    ColourId(data.id, data.base, data.name, data.hex, data.rgb)
create_colour_from_json(data) ==
    ColourId(data.id, data.name, data.base, data.hex, data.rgb)

ReaderIdle ==
    /\ bucket = <<>>
    /\ response = [KeyCount |-> 0, IsTruncated |-> FALSE]
    /\ rpc = "idle"
    /\ listIdx = 0
    /\ yielded = <<>>
    /\ s3_key = <<>>
    /\ json_data = <<>>
    /\ recIdx = 0
    /\ result = <<>>
    /\ ppc = "idle"
    /\ pipeline_result = <<>>
    /\ p_response = [KeyCount |-> 0, IsTruncated |-> FALSE]
    /\ p_listIdx = 0
    /\ p_yielded = <<>>
    /\ p_key = <<>>
    /\ p_json = <<>>
    /\ p_recIdx = 0
    /\ p_list = <<>>

ReaderInit ==
    /\ bucket \in SampleBuckets
    /\ response = [KeyCount |-> 0, IsTruncated |-> FALSE]
    /\ rpc = "start"
    /\ listIdx = 0
    /\ yielded = <<>>
    /\ s3_key = <<>>
    /\ json_data = <<>>
    /\ recIdx = 0
    /\ result = <<>>
    /\ ppc = "start"
    /\ pipeline_result = <<>>
    /\ p_response = [KeyCount |-> 0, IsTruncated |-> FALSE]
    /\ p_listIdx = 0
    /\ p_yielded = <<>>
    /\ p_key = <<>>
    /\ p_json = <<>>
    /\ p_recIdx = 0
    /\ p_list = <<>>

\* the for statement asks the generator for its first key: the generator's
\* body starts and sends the listing request
ListKeys ==
    /\ rpc = "start"
    /\ response' = list_objects_v2(bucket)
    /\ listIdx' = 0
    /\ rpc' = "list"
    /\ UNCHANGED <<bucket, yielded, s3_key, json_data, recIdx, result>>
    /\ UNCHANGED <<pipelineVars, predVars, extractVars, scraperVars, tripVars>>

\* the listing request raises
ListFault ==
    /\ rpc = "start"
    /\ rpc' = "fault_list"
    /\ UNCHANGED <<bucket, response, listIdx, yielded, s3_key, json_data, recIdx, result>>
    /\ UNCHANGED <<pipelineVars, predVars, extractVars, scraperVars, tripVars>>

\* the generator skips a key that ends in "/"
GenSkip ==
    /\ rpc = "list"
    /\ listIdx < Len(ResponseContents(response))
    /\ EndsWithSlash(ResponseContents(response)[listIdx + 1].Key)
    /\ listIdx' = listIdx + 1
    /\ UNCHANGED <<bucket, response, rpc, yielded, s3_key, json_data, recIdx, result>>
    /\ UNCHANGED <<pipelineVars, predVars, extractVars, scraperVars, tripVars>>

\* the generator yields a key, and the loop body starts on it
GenYield ==
    /\ rpc = "list"
    /\ listIdx < Len(ResponseContents(response))
    /\ ~EndsWithSlash(ResponseContents(response)[listIdx + 1].Key)
    /\ listIdx' = listIdx + 1
    /\ s3_key' = ResponseContents(response)[listIdx + 1].Key
    /\ yielded' = Append(yielded, s3_key')
    /\ rpc' = "fetch"
    /\ UNCHANGED <<bucket, response, json_data, recIdx, result>>
    /\ UNCHANGED <<pipelineVars, predVars, extractVars, scraperVars, tripVars>>

\* the page of a listing that starts after the first n keys
list_objects_v2_after(b, n) ==
    list_objects_v2(SubSeq(b, n + 1, Len(b)))

\* mutant: a truncated response is followed by a request for the next page
GenReturn_next_page ==
    /\ rpc = "list"
    /\ listIdx = Len(ResponseContents(response))
    /\ IF response.IsTruncated
       THEN /\ response' = list_objects_v2_after(bucket, PageSize)
            /\ listIdx' = 0
            /\ rpc' = "list"
       ELSE /\ rpc' = "done"
            /\ UNCHANGED <<response, listIdx>>
    /\ UNCHANGED <<bucket, yielded, s3_key, json_data, recIdx, result>>
    /\ UNCHANGED <<pipelineVars, predVars, extractVars, scraperVars, tripVars>>

\* the generator returns: the loop is over
GenReturn ==
    /\ rpc = "list"
    /\ listIdx = Len(ResponseContents(response))
    /\ rpc' = "done"
    /\ UNCHANGED <<bucket, response, listIdx, yielded, s3_key, json_data, recIdx, result>>
    /\ UNCHANGED <<pipelineVars, predVars, extractVars, scraperVars, tripVars>>

\* mutant: an object that does not decompress or parse is passed over
FetchObject_skip_bad ==
    /\ rpc = "fetch"
    /\ LET downloaded_file_bytes == download_s3_file(bucket, s3_key)
       IN  IF ~downloaded_file_bytes.gzip \/ ~downloaded_file_bytes.json
           THEN rpc' = "list" /\ UNCHANGED <<json_data, recIdx>>
           ELSE /\ json_data' = json_loads(gzip_decompress(downloaded_file_bytes))
                /\ recIdx' = 0
                /\ rpc' = "records"
    /\ UNCHANGED <<bucket, response, listIdx, yielded, s3_key, result>>
    /\ UNCHANGED <<pipelineVars, predVars, extractVars, scraperVars, tripVars>>

\* download_s3_file, gzip.decompress, json.loads
FetchObject ==
    /\ rpc = "fetch"
    /\ LET downloaded_file_bytes == download_s3_file(bucket, s3_key)
       IN  IF ~downloaded_file_bytes.gzip
           THEN rpc' = "fault_gzip" /\ UNCHANGED <<json_data, recIdx>>
           ELSE IF ~downloaded_file_bytes.json
           THEN rpc' = "fault_json" /\ UNCHANGED <<json_data, recIdx>>
           ELSE /\ json_data' = json_loads(gzip_decompress(downloaded_file_bytes))
                /\ recIdx' = 0
                /\ rpc' = "records"
    /\ UNCHANGED <<bucket, response, listIdx, yielded, s3_key, result>>
    /\ UNCHANGED <<pipelineVars, predVars, extractVars, scraperVars, tripVars>>

\* s3.get_object raises
FetchFault ==
    /\ rpc = "fetch"
    /\ rpc' = "fault_fetch"
    /\ UNCHANGED <<bucket, response, listIdx, yielded, s3_key, json_data, recIdx, result>>
    /\ UNCHANGED <<pipelineVars, predVars, extractVars, scraperVars, tripVars>>

\* mutant: the second filter is left out
ProcessRecord_one_filter ==
    /\ rpc = "records"
    /\ recIdx < Len(json_data)
    /\ LET c == create_colour_from_json(json_data[recIdx + 1])
       IN  result' = IF ~is_colour_reddish(c) THEN result ELSE Append(result, c)
    /\ recIdx' = recIdx + 1
    /\ UNCHANGED <<bucket, response, rpc, listIdx, yielded, s3_key, json_data>>
    /\ UNCHANGED <<pipelineVars, predVars, extractVars, scraperVars, tripVars>>

\* mutant: break for the first continue, so the next key is fetched with
\* records of this object left over
ProcessRecord_break ==
    /\ rpc = "records"
    /\ recIdx < Len(json_data)
    /\ LET c == create_colour_from_json(json_data[recIdx + 1])
       IN  /\ result' = IF ~is_colour_reddish(c) THEN result
                         ELSE IF ~is_colour_muted(c) THEN result
                         ELSE Append(result, c)
           /\ rpc' = IF ~is_colour_reddish(c) THEN "list" ELSE rpc
    /\ recIdx' = recIdx + 1
    /\ UNCHANGED <<bucket, response, listIdx, yielded, s3_key, json_data>>
    /\ UNCHANGED <<pipelineVars, predVars, extractVars, scraperVars, tripVars>>

\* one turn of the inner loop: build the colour, apply the filters
ProcessRecord ==
    /\ rpc = "records"
    /\ recIdx < Len(json_data)
    /\ LET c == create_colour_from_json(json_data[recIdx + 1])
       IN  result' = IF ~is_colour_reddish(c) THEN result
                     ELSE IF ~is_colour_muted(c) THEN result
                     ELSE Append(result, c)
    /\ recIdx' = recIdx + 1
    /\ UNCHANGED <<bucket, response, rpc, listIdx, yielded, s3_key, json_data>>
    /\ UNCHANGED <<pipelineVars, predVars, extractVars, scraperVars, tripVars>>

\* the inner loop is over: back to the generator for the next key
EndOfObject ==
    /\ rpc = "records"
    /\ recIdx = Len(json_data)
    /\ rpc' = "list"
    /\ UNCHANGED <<bucket, response, listIdx, yielded, s3_key, json_data, recIdx, result>>
    /\ UNCHANGED <<pipelineVars, predVars, extractVars, scraperVars, tripVars>>

\* print(f"Found {len(result)} colours"); print(result[0])
PrintResult ==
    /\ rpc = "done"
    /\ rpc' = IF Len(result) = 0 THEN "fault_index" ELSE "printed"
    /\ UNCHANGED <<bucket, response, listIdx, yielded, s3_key, json_data, recIdx, result>>
    /\ UNCHANGED <<pipelineVars, predVars, extractVars, scraperVars, tripVars>>

LoopOver == rpc \in {"printed", "fault_index", "fault_list", "fault_fetch", "fault_gzip", "fault_json"}

(***************************************************************************)
(* The pipeline: seq(keys).map(download).map(gzip.decompress)              *)
(* .map(json.loads).flatten().map(create_colour_from_json)                 *)
(* .filter(is_colour_reddish).filter(is_colour_muted).to_list().           *)
(* Every stage is an iterator over the one before it, so to_list draws one *)
(* element at a time through all of them: the flatten stage asks for the   *)
(* next parsed object only when the records of the current one are used    *)
(* up, and that request goes down to the generator of the keys, which      *)
(* sends the listing request on the first one.  The first key whose        *)
(* download, decompression or parse raises ends the evaluation, and the    *)
(* assignment to result does not happen.  The cell is independent of the   *)
(* loop's cell (they share the bucket, which neither writes); it is run    *)
(* once the loop's is over.                                                *)
(***************************************************************************)
\* the keys the generator yields for a response, as a sequence
IsFileKey(key) == ~EndsWithSlash(key)
list_s3_bucket_file_keys(r) ==
    SelectSeq([i \in DOMAIN ResponseContents(r) |-> ResponseContents(r)[i].Key], IsFileKey)

\* .map(create_colour_from_json)
map_create_colour(dicts) == [i \in DOMAIN dicts |-> create_colour_from_json(dicts[i])]

\* to_list asks for the first element: the generator's body starts and sends
\* the listing request
PipeListKeys ==
    /\ LoopOver
    /\ ppc = "start"
    /\ p_response' = list_objects_v2(bucket)
    /\ p_listIdx' = 0
    /\ ppc' = "list"
    /\ UNCHANGED <<pipeline_result, p_yielded, p_key, p_json, p_recIdx, p_list>>
    /\ UNCHANGED <<bucket, loopVars, predVars, extractVars, scraperVars, tripVars>>

\* the listing request raises
PipeListFault ==
    /\ LoopOver
    /\ ppc = "start"
    /\ ppc' = "fault_list"
    /\ UNCHANGED <<pipeline_result, p_response, p_listIdx, p_yielded, p_key, p_json, p_recIdx, p_list>>
    /\ UNCHANGED <<bucket, loopVars, predVars, extractVars, scraperVars, tripVars>>

\* the generator skips a key that ends in "/"
PipeSkip ==
    /\ ppc = "list"
    /\ p_listIdx < Len(ResponseContents(p_response))
    /\ EndsWithSlash(ResponseContents(p_response)[p_listIdx + 1].Key)
    /\ p_listIdx' = p_listIdx + 1
    /\ UNCHANGED <<ppc, pipeline_result, p_response, p_yielded, p_key, p_json, p_recIdx, p_list>>
    /\ UNCHANGED <<bucket, loopVars, predVars, extractVars, scraperVars, tripVars>>

\* the generator yields a key to the first map stage
PipeYield ==
    /\ ppc = "list"
    /\ p_listIdx < Len(ResponseContents(p_response))
    /\ ~EndsWithSlash(ResponseContents(p_response)[p_listIdx + 1].Key)
    /\ p_listIdx' = p_listIdx + 1
    /\ p_key' = ResponseContents(p_response)[p_listIdx + 1].Key
    /\ p_yielded' = Append(p_yielded, p_key')
    /\ ppc' = "fetch"
    /\ UNCHANGED <<pipeline_result, p_response, p_json, p_recIdx, p_list>>
    /\ UNCHANGED <<bucket, loopVars, predVars, extractVars, scraperVars, tripVars>>

\* the three map stages on the key: download_s3_file, gzip.decompress,
\* json.loads; the flatten stage starts on the parsed list
PipeFetch ==
    /\ ppc = "fetch"
    /\ LET downloaded == download_s3_file(bucket, p_key)
       IN  IF ~downloaded.gzip
           THEN ppc' = "fault_gzip" /\ UNCHANGED <<p_json, p_recIdx>>
           ELSE IF ~downloaded.json
           THEN ppc' = "fault_json" /\ UNCHANGED <<p_json, p_recIdx>>
           ELSE /\ p_json' = json_loads(gzip_decompress(downloaded))
                /\ p_recIdx' = 0
                /\ ppc' = "records"
    /\ UNCHANGED <<pipeline_result, p_response, p_listIdx, p_yielded, p_key, p_list>>
    /\ UNCHANGED <<bucket, loopVars, predVars, extractVars, scraperVars, tripVars>>

\* s3.get_object raises
PipeFetchFault ==
    /\ ppc = "fetch"
    /\ ppc' = "fault_fetch"
    /\ UNCHANGED <<pipeline_result, p_response, p_listIdx, p_yielded, p_key, p_json, p_recIdx, p_list>>
    /\ UNCHANGED <<bucket, loopVars, predVars, extractVars, scraperVars, tripVars>>

\* mutant: the first filter stage is left out
PipeRecord_muted_only ==
    /\ ppc = "records"
    /\ p_recIdx < Len(p_json)
    /\ LET c == create_colour_from_json(p_json[p_recIdx + 1])
           muted == SelectSeq(<<c>>, is_colour_muted)
       IN  p_list' = p_list \o muted
    /\ p_recIdx' = p_recIdx + 1
    /\ UNCHANGED <<ppc, pipeline_result, p_response, p_listIdx, p_yielded, p_key, p_json>>
    /\ UNCHANGED <<bucket, loopVars, predVars, extractVars, scraperVars, tripVars>>

\* one element goes from the flatten stage through create_colour_from_json
\* and the two filter stages; to_list keeps it if both let it through
PipeRecord ==
    /\ ppc = "records"
    /\ p_recIdx < Len(p_json)
    /\ LET c == create_colour_from_json(p_json[p_recIdx + 1])
           reddish == IF is_colour_reddish(c) THEN <<c>> ELSE <<>>
           muted == SelectSeq(reddish, is_colour_muted)
       IN  p_list' = p_list \o muted
    /\ p_recIdx' = p_recIdx + 1
    /\ UNCHANGED <<ppc, pipeline_result, p_response, p_listIdx, p_yielded, p_key, p_json>>
    /\ UNCHANGED <<bucket, loopVars, predVars, extractVars, scraperVars, tripVars>>

\* the parsed list is used up: the flatten stage asks for the next one
PipeEndOfObject ==
    /\ ppc = "records"
    /\ p_recIdx = Len(p_json)
    /\ ppc' = "list"
    /\ UNCHANGED <<pipeline_result, p_response, p_listIdx, p_yielded, p_key, p_json, p_recIdx, p_list>>
    /\ UNCHANGED <<bucket, loopVars, predVars, extractVars, scraperVars, tripVars>>

\* the generator returns: to_list returns its list, which is assigned to result
PipeReturn ==
    /\ ppc = "list"
    /\ p_listIdx = Len(ResponseContents(p_response))
    /\ pipeline_result' = p_list
    /\ ppc' = "done"
    /\ UNCHANGED <<p_response, p_listIdx, p_yielded, p_key, p_json, p_recIdx, p_list>>
    /\ UNCHANGED <<bucket, loopVars, predVars, extractVars, scraperVars, tripVars>>

\* print(f"Found {len(result)} colours"); print(result[0])
PrintPipelineResult ==
    /\ ppc = "done"
    /\ ppc' = IF Len(pipeline_result) = 0 THEN "fault_index" ELSE "printed"
    /\ UNCHANGED <<pipeline_result, p_response, p_listIdx, p_yielded, p_key, p_json, p_recIdx, p_list>>
    /\ UNCHANGED <<bucket, loopVars, predVars, extractVars, scraperVars, tripVars>>

(***************************************************************************)
(* The scraper: create-sample-json-gz-files.ipynb.                         *)
(***************************************************************************)
\* A candidate paragraph (p, class has-white-color): its first strong
\* element, if it has one, and the text that follows it.
ParaCarmine ==
    [hasStrong |-> TRUE,
     strong |-> <<"C", "a", "r", "m", "i", "n", "e">>,
     rest |->
        <<" ", "H", "e", "x", " ", "#", "9", "6", "0", "0", "1", "8", " ", "R", "G", "B",
          " ", "1", "5", "0", ",", " ", "0", ",", " ", "2", "4">>]
ParaAsphalt ==
    [hasStrong |-> TRUE,
     strong |-> <<"A", "s", "p", "h", "a", "l", "t">>,
     rest |->
        <<" ", "H", "e", "x", " ", "#", "0", "C", "0", "4", "0", "4", " ", "R", "G", "B",
          " ", "1", "2", ",", "4", ",", "4">>]
ParaNoName ==
    [hasStrong |-> FALSE,
     strong |-> <<>>,
     rest |->
        <<" ", "H", "e", "x", " ", "#", "8", "D", "0", "2", "1", "F", " ", "R", "G", "B",
          " ", "1", "4", "1", ",", " ", "2", ",", " ", "3", "1">>]
ParaNoHex ==
    [hasStrong |-> TRUE,
     strong |-> <<"R", "u", "b", "y">>,
     rest |->
        <<" ", "H", "e", "x", " ", "9", "B", "1", "1", "1", "E", " ", "R", "G", "B", " ",
          "1", "5", "5", ",", " ", "1", "7", ",", " ", "3", "0">>]
ParaNoRgb ==
    [hasStrong |-> TRUE,
     strong |-> <<"R", "o", "s", "e">>,
     rest |->
        <<" ", "H", "e", "x", " ", "#", "F", "F", "0", "0", "7", "F", " ", "R", "G", "B",
          " ", "2", "5", "5", ";", " ", "0", ";", " ", "1", "2", "7">>]
ParaOutOfRange ==
    [hasStrong |-> TRUE,
     strong |-> <<"O", "d", "d">>,
     rest |->
        <<" ", "H", "e", "x", " ", "#", "0", "1", "0", "2", "5", "6", " ", "r", "g", "b",
          " ", "1", ",", " ", "2", ",", " ", "3", "4", "2">>]

\* paragraph.text: the text of the element and of everything in it
ParagraphText(p) == (IF p.hasStrong THEN p.strong ELSE <<>>) \o p.rest

\* what soup.find_all("p", class_="has-white-color") finds in a page
SamplePages ==
    {<<>>,
     <<ParaNoHex, ParaNoName>>,
     <<ParaCarmine, ParaNoHex, ParaAsphalt, ParaNoName, ParaNoRgb, ParaOutOfRange>>}

Colour(name, base, hex, rgb) == [name |-> name, base |-> base, hex |-> hex, rgb |-> rgb]

\* mutant: the id is made once, not once per record
add_id_to_colour_once(c, id) == ColourId(1, c.name, c.base, c.hex, c.rgb)
\* uuid.uuid4() is a value no earlier call returned: the next of a counter
add_id_to_colour(c, id) == ColourId(id, c.name, c.base, c.hex, c.rgb)

\* mutant: a key is left out of the dict
toJSON_no_id(c) == [name |-> c.name, base |-> c.base, hex |-> c.hex, rgb |-> c.rgb]
\* ColourId.toJSON: the dict of the five fields
toJSON(c) == [id |-> c.id, name |-> c.name, base |-> c.base, hex |-> c.hex, rgb |-> c.rgb]

OutputFileName(c) ==
    <<".", "/", "s", "m", "a", "l", "l", "-", "f", "i", "l", "e", "s", "/">> \o c \o JsonGzSuffix

\* save_to_json_gz_file: json.dumps, encode, write through gzip ("w": the
\* file is created or replaced)
save_to_json_gz_file(fs, file_name, data) ==
    LET json_str == json_dumps(data)
    IN  [n \in DOMAIN fs \cup {file_name} |->
            IF n = file_name THEN gzip_compress(json_str) ELSE fs[n]]

NoFiles == [n \in {} |-> NotGzip]

ScraperIdle ==
    /\ spc = "idle"
    /\ famIdx = 0
    /\ page = <<>>
    /\ paraIdx = 0
    /\ generated = <<>>
    /\ colours_with_ids_json = <<>>
    /\ files = NoFiles
    /\ printed = <<>>
    /\ nextId = 1

ScraperInit ==
    /\ spc = "loop"
    /\ famIdx = 0
    /\ page = <<>>
    /\ paraIdx = 0
    /\ generated = <<>>
    /\ colours_with_ids_json = <<>>
    /\ files = NoFiles
    /\ printed = <<>>
    /\ nextId = 1

\* the next colour of colour_names: to_list starts the generator, which
\* requests the page and finds its candidate paragraphs
StartFamily ==
    /\ spc = "loop"
    /\ famIdx < Len(colour_names)
    /\ famIdx' = famIdx + 1
    /\ page' \in SamplePages
    /\ paraIdx' = 0
    /\ generated' = <<>>
    /\ colours_with_ids_json' = <<>>
    /\ spc' = "paragraphs"
    /\ UNCHANGED <<files, printed, nextId>>
    /\ UNCHANGED <<predVars, extractVars, readerVars, tripVars>>

\* mutant: the files written so far are removed when a page cannot be fetched
PageFault_rollback ==
    /\ spc = "loop"
    /\ famIdx < Len(colour_names)
    /\ famIdx' = famIdx + 1
    /\ spc' = "fault"
    /\ files' = NoFiles
    /\ UNCHANGED <<page, paraIdx, generated, colours_with_ids_json, printed, nextId>>
    /\ UNCHANGED <<predVars, extractVars, readerVars, tripVars>>

\* requests.get raises
PageFault ==
    /\ spc = "loop"
    /\ famIdx < Len(colour_names)
    /\ famIdx' = famIdx + 1
    /\ spc' = "fault"
    /\ UNCHANGED <<page, paraIdx, generated, colours_with_ids_json, files, printed, nextId>>
    /\ UNCHANGED <<predVars, extractVars, readerVars, tripVars>>

\* a paragraph without a strong element: continue
SkipNoName ==
    /\ spc = "paragraphs"
    /\ paraIdx < Len(page)
    /\ ~page[paraIdx + 1].hasStrong
    /\ paraIdx' = paraIdx + 1
    /\ UNCHANGED <<spc, famIdx, page, generated, colours_with_ids_json, files, printed, nextId>>
    /\ UNCHANGED <<predVars, extractVars, readerVars, tripVars>>

\* mutant: break for continue
SkipNoColour_break ==
    /\ spc = "paragraphs"
    /\ paraIdx < Len(page)
    /\ page[paraIdx + 1].hasStrong
    /\ LET paragraph == page[paraIdx + 1]
           hex == extract_hex_colour(ParagraphText(paragraph))
           rgb == extract_rgb_colour(ParagraphText(paragraph))
       IN  hex = None \/ rgb = None
    /\ paraIdx' = Len(page)
    /\ UNCHANGED <<spc, famIdx, page, generated, colours_with_ids_json, files, printed, nextId>>
    /\ UNCHANGED <<predVars, extractVars, readerVars, tripVars>>

\* a paragraph without a hex or an rgb match: continue
SkipNoColour ==
    /\ spc = "paragraphs"
    /\ paraIdx < Len(page)
    /\ page[paraIdx + 1].hasStrong
    /\ LET paragraph == page[paraIdx + 1]
           hex == extract_hex_colour(ParagraphText(paragraph))
           rgb == extract_rgb_colour(ParagraphText(paragraph))
       IN  hex = None \/ rgb = None
    /\ paraIdx' = paraIdx + 1
    /\ UNCHANGED <<spc, famIdx, page, generated, colours_with_ids_json, files, printed, nextId>>
    /\ UNCHANGED <<predVars, extractVars, readerVars, tripVars>>

\* mutant: the base is the one of the test call, "red", whatever the family
YieldColour_base_red ==
    /\ spc = "paragraphs"
    /\ paraIdx < Len(page)
    /\ page[paraIdx + 1].hasStrong
    /\ LET paragraph == page[paraIdx + 1]
           name == paragraph.strong
           hex == extract_hex_colour(ParagraphText(paragraph))
           rgb == extract_rgb_colour(ParagraphText(paragraph))
           c == Colour(name, colour_names[8], hex, rgb)
       IN  /\ hex # None
           /\ rgb # None
           /\ generated' = Append(generated, c)
           /\ colours_with_ids_json' =
                  Append(colours_with_ids_json, toJSON(add_id_to_colour(c, nextId)))
    /\ nextId' = nextId + 1
    /\ paraIdx' = paraIdx + 1
    /\ UNCHANGED <<spc, famIdx, page, files, printed>>
    /\ UNCHANGED <<predVars, extractVars, readerVars, tripVars>>

\* the generator yields a Colour; the pipeline gives it an id and turns it
\* into a dict, which to_list collects
YieldColour ==
    /\ spc = "paragraphs"
    /\ paraIdx < Len(page)
    /\ page[paraIdx + 1].hasStrong
    /\ LET paragraph == page[paraIdx + 1]
           name == paragraph.strong
           hex == extract_hex_colour(ParagraphText(paragraph))
           rgb == extract_rgb_colour(ParagraphText(paragraph))
           c == Colour(name, colour_names[famIdx], hex, rgb)
       IN  /\ hex # None
           /\ rgb # None
           /\ generated' = Append(generated, c)
           /\ colours_with_ids_json' =
                  Append(colours_with_ids_json, toJSON(add_id_to_colour(c, nextId)))
    /\ nextId' = nextId + 1
    /\ paraIdx' = paraIdx + 1
    /\ UNCHANGED <<spc, famIdx, page, files, printed>>
    /\ UNCHANGED <<predVars, extractVars, readerVars, tripVars>>

\* mutant: the file is saved whatever the number found
FinishFamily_always_save ==
    /\ spc = "paragraphs"
    /\ paraIdx = Len(page)
    /\ LET num_found_colours == Len(colours_with_ids_json)
       IN  /\ printed' = Append(printed, num_found_colours)
           /\ files' = save_to_json_gz_file(files, OutputFileName(colour_names[famIdx]),
                                            colours_with_ids_json)
    /\ spc' = "loop"
    /\ UNCHANGED <<famIdx, page, paraIdx, generated, colours_with_ids_json, nextId>>
    /\ UNCHANGED <<predVars, extractVars, readerVars, tripVars>>

\* the generator returns: report the number found and, unless it is 0,
\* save the file of the family
FinishFamily ==
    /\ spc = "paragraphs"
    /\ paraIdx = Len(page)
    /\ LET num_found_colours == Len(colours_with_ids_json)
       IN  /\ printed' = Append(printed, num_found_colours)
           /\ files' = IF num_found_colours = 0
                       THEN files
                       ELSE save_to_json_gz_file(files, OutputFileName(colour_names[famIdx]),
                                                 colours_with_ids_json)
    /\ spc' = "loop"
    /\ UNCHANGED <<famIdx, page, paraIdx, generated, colours_with_ids_json, nextId>>
    /\ UNCHANGED <<predVars, extractVars, readerVars, tripVars>>

\* colour_names is exhausted
ScraperDone ==
    /\ spc = "loop"
    /\ famIdx = Len(colour_names)
    /\ spc' = "done"
    /\ UNCHANGED <<famIdx, page, paraIdx, generated, colours_with_ids_json, files, printed, nextId>>
    /\ UNCHANGED <<predVars, extractVars, readerVars, tripVars>>

(***************************************************************************)
(* A list of ColourId records saved by the scraper's save_to_json_gz_file  *)
(* and read back by the reader's steps.                                    *)
(***************************************************************************)
\* the most records in a list
MaxRecords == 3

SampleColourIds ==
    {ColourId(1, <<"A", "s", "p", "h", "a", "l", "t">>, colour_names[1],
              <<"#", "0", "C", "0", "4", "0", "4">>, <<12, 4, 4>>),
     ColourId(2, <<"C", "a", "r", "m", "i", "n", "e">>, colour_names[8],
              <<"#", "9", "6", "0", "0", "1", "8">>, <<150, 0, 24>>),
     ColourId(3, <<"O", "d", "d">>, colour_names[8],
              <<"#", "0", "1", "0", "2", "5", "6">>, <<1, 2, 342>>),
     ColourId(4, <<"W", "h", "i", "t", "e">>, colour_names[3],
              <<"#", "f", "f", "f", "f", "f", "f">>, <<255, 255, 255>>),
     ColourId(5, <<"T", "e", "a", "l">>, colour_names[2],
              <<"#", "0", "a", "6", "4", "0", "9">>, <<10, 100, 9>>)}

RECURSIVE ListsOfLength(_)
ListsOfLength(n) ==
    IF n = 0 THEN {<<>>}
    ELSE {Append(l, c) : l \in ListsOfLength(n - 1), c \in SampleColourIds}

SampleLists == UNION {ListsOfLength(n) : n \in 0..MaxRecords}

TripFile == OutputFileName(colour_names[8])

TripIdle ==
    /\ colour_ids = <<>>
    /\ saved = NoFiles
    /\ loaded = <<>>
    /\ tpc = "idle"

TripInit ==
    /\ colour_ids \in SampleLists
    /\ saved = NoFiles
    /\ loaded = <<>>
    /\ tpc = "start"

\* .map(lambda c: c.toJSON()).to_list() and save_to_json_gz_file
SaveRecords ==
    /\ tpc = "start"
    /\ saved' = save_to_json_gz_file(saved, TripFile,
                                      [i \in DOMAIN colour_ids |-> toJSON(colour_ids[i])])
    /\ tpc' = "saved"
    /\ UNCHANGED <<colour_ids, loaded>>
    /\ UNCHANGED <<predVars, extractVars, readerVars, scraperVars>>

\* the reader's steps on the bytes of the file: gzip.decompress, json.loads,
\* create_colour_from_json on each element
ReadRecords ==
    /\ tpc = "saved"
    /\ LET downloaded_file_bytes == saved[TripFile]
           decompressed_text == gzip_decompress(downloaded_file_bytes)
       IN  loaded' = map_create_colour(json_loads(decompressed_text))
    /\ tpc' = "read"
    /\ UNCHANGED <<colour_ids, saved>>
    /\ UNCHANGED <<predVars, extractVars, readerVars, scraperVars>>

(***************************************************************************)
(* The specifications.                                                     *)
(***************************************************************************)
\* the reader, from the listing to the result list
Init == PredIdle /\ ExtractIdle /\ ReaderInit /\ ScraperIdle /\ TripIdle
Next ==
    \/ ListKeys
    \/ ListFault
    \/ GenSkip
    \/ GenYield
    \/ GenReturn
    \/ FetchObject
    \/ FetchFault
    \/ ProcessRecord
    \/ EndOfObject
    \/ PrintResult
    \/ PipeListKeys
    \/ PipeListFault
    \/ PipeSkip
    \/ PipeYield
    \/ PipeFetch
    \/ PipeFetchFault
    \/ PipeRecord
    \/ PipeEndOfObject
    \/ PipeReturn
    \/ PrintPipelineResult
Spec == Init /\ [][Next]_vars

\* the predicates on a colour
InitPredicates == PredInit /\ ExtractIdle /\ ReaderIdle /\ ScraperIdle /\ TripIdle
NextPredicates == CallReddish \/ CallMuted
SpecPredicates == InitPredicates /\ [][NextPredicates]_vars

\* the extractors on a text
InitExtract == PredIdle /\ ExtractInit /\ ReaderIdle /\ ScraperIdle /\ TripIdle
NextExtract == CallExtractHex \/ CallExtractRgb
SpecExtract == InitExtract /\ [][NextExtract]_vars

\* the scraper, from the first family to the last file
InitScraper == PredIdle /\ ExtractIdle /\ ReaderIdle /\ ScraperInit /\ TripIdle
NextScraper ==
    \/ StartFamily
    \/ PageFault
    \/ SkipNoName
    \/ SkipNoColour
    \/ YieldColour
    \/ FinishFamily
    \/ ScraperDone
SpecScraper == InitScraper /\ [][NextScraper]_vars

\* a list of records, saved and read back
InitRoundTrip == PredIdle /\ ExtractIdle /\ ReaderIdle /\ ScraperIdle /\ TripInit
NextRoundTrip == SaveRecords \/ ReadRecords
SpecRoundTrip == InitRoundTrip /\ [][NextRoundTrip]_vars

(***************************************************************************)
(* The properties.                                                         *)
(***************************************************************************)
Red == colour.rgb[1]
Green == colour.rgb[2]
Blue == colour.rgb[3]

\* C1: for every RGB triple, is_colour_reddish is true exactly when red is
\* strictly greater than green and than blue; a tie with either makes it false.
C1_ReddishIffRedStrictlyGreatest ==
    "reddish" \in predPc =>
        /\ reddishOut <=> (\A other \in {Green, Blue} : Red > other)
        /\ (Red = Green \/ Red = Blue) => ~reddishOut

C1_Witness ==
    /\ "reddish" \in predPc
    /\ Red = Green
    /\ Red > Blue
    /\ ~reddishOut

\* C2 as stated: reddish is true for (150, 0, 24) and false for (12, 4, 4).
C2_ReddishExamplesAsStated ==
    "reddish" \in predPc =>
        /\ colour.rgb = <<150, 0, 24>> => reddishOut
        /\ colour.rgb = <<12, 4, 4>> => ~reddishOut

\* C2 as amended: reddish is true for (150, 0, 24) and true for (12, 4, 4),
\* whose red channel 12 is strictly greater than both 4s.
C2_ReddishExamples ==
    "reddish" \in predPc =>
        /\ colour.rgb = <<150, 0, 24>> => reddishOut
        /\ colour.rgb = <<12, 4, 4>> => reddishOut

C2_Witness ==
    /\ "reddish" \in predPc
    /\ colour.rgb = <<12, 4, 4>>
    /\ reddishOut

\* C3: is_colour_muted is true when all three channels are below 128 and false
\* when any channel is 128 or more.
C3_MutedIffAllBelow128 ==
    "muted" \in predPc =>
        /\ (\A k \in 1..3 : colour.rgb[k] < 128) => mutedOut
        /\ (\E k \in 1..3 : colour.rgb[k] >= 128) => ~mutedOut

C3_Witness ==
    /\ "muted" \in predPc
    /\ \E k \in 1..3 : colour.rgb[k] = 128 /\ \A j \in (1..3) \ {k} : colour.rgb[j] < 128
    /\ ~mutedOut

\* the keys of the listing response, in its order
KeysOf(r) ==
    IF "Contents" \in DOMAIN r THEN [i \in DOMAIN r.Contents |-> r.Contents[i].Key] ELSE <<>>
NotFolder(key) == key[Len(key)] # "/"
GeneratorReturned == rpc \in {"done", "printed", "fault_index"}

\* C4: the generator yields exactly the keys of the response's Contents that do
\* not end in "/", each once and in the response's order; it never yields a key
\* ending in "/"; a response without Contents yields nothing, without error.
C4_ListingYieldsFileKeys ==
    rpc \notin {"start", "fault_list"} =>
        /\ listIdx \in 0..Len(KeysOf(response))
        /\ yielded = SelectSeq(SubSeq(KeysOf(response), 1, listIdx), NotFolder)
        /\ \A i \in DOMAIN yielded : yielded[i][Len(yielded[i])] # "/"
        /\ \A i, j \in DOMAIN yielded : i < j => yielded[i] # yielded[j]
        /\ GeneratorReturned => yielded = SelectSeq(KeysOf(response), NotFolder)
        /\ list_s3_bucket_file_keys(response) = SelectSeq(KeysOf(response), NotFolder)
        /\ "Contents" \notin DOMAIN response =>
               yielded = <<>> /\ (rpc = "list" \/ GeneratorReturned)

C4_Witness ==
    /\ rpc = "done"
    /\ Len(KeysOf(response)) = 3
    /\ ~NotFolder(KeysOf(response)[2])
    /\ Len(yielded) = 2

\* the records of the object stored under a key
RecordsOf(key) == loads_value((CHOOSE e \in Range(bucket) : e.Key = key).Body.value)
ReddishAndMuted(c) == is_colour_reddish(c) /\ is_colour_muted(c)

RECURSIVE FilteredRecords(_)
\* the records that pass both predicates: by object in the order of the keys,
\* by position within an object; an object under a key ending in "/" has none
FilteredRecords(keys) ==
    IF keys = <<>> THEN <<>>
    ELSE (IF NotFolder(Head(keys)) THEN SelectSeq(RecordsOf(Head(keys)), ReddishAndMuted)
          ELSE <<>>) \o FilteredRecords(Tail(keys))

\* C5: when the reader run completes, the result list holds exactly the records
\* of the listed objects that satisfy both predicates, in listing order of the
\* objects, then array order within each object (the loop and the pipeline).
C5_ResultIsFilteredRecords ==
    /\ GeneratorReturned =>
           /\ result = FilteredRecords(KeysOf(response))
           /\ \A i \in DOMAIN result : ReddishAndMuted(result[i])
    /\ ppc \in {"done", "printed", "fault_index"} =>
           /\ pipeline_result = FilteredRecords(KeysOf(list_objects_v2(bucket)))
           /\ \A i \in DOMAIN pipeline_result : ReddishAndMuted(pipeline_result[i])

C5_Witness ==
    /\ rpc = "printed"
    /\ ppc = "printed"
    /\ Len(result) >= 3
    /\ result[1].base # result[Len(result)].base
    /\ \E k \in Range(yielded) : \E i \in DOMAIN RecordsOf(k) : ~ReddishAndMuted(RecordsOf(k)[i])
    /\ pipeline_result = result

(***************************************************************************)
(* What the patterns match, stated on the text: an occurrence is read left *)
(* to right, every run of white space or digits taken whole.               *)
(***************************************************************************)
\* the length of the longest run of characters of a set from pos on
RunOf(set, t, pos) ==
    CHOOSE n \in 0..(Len(t) + 1 - pos) :
        /\ \A k \in 0..(n - 1) : t[pos + k] \in set
        /\ pos + n > Len(t) \/ t[pos + n] \notin set

DecimalDigits == {"0", "1", "2", "3", "4", "5", "6", "7", "8", "9"}
WhiteSpace == {" ", "\t", "\n", "\r"}
HexDigits ==
    DecimalDigits \cup {"a", "b", "c", "d", "e", "f", "A", "B", "C", "D", "E", "F"}

IsChar(t, pos, set) == pos <= Len(t) /\ t[pos] \in set

\* white space, then 1 to 3 digits, then a comma: where the part ends, 0 if
\* the text at pos is no such part
ChannelEnd(t, pos) ==
    LET d == pos + RunOf(WhiteSpace, t, pos)
        n == RunOf(DecimalDigits, t, d)
    IN  IF n \in 1..3 /\ IsChar(t, d + n, {","}) THEN d + n + 1 ELSE 0

\* the digits of the channel that starts at pos: at most 3 of its run
ChannelDigits(t, pos) ==
    LET d == pos + RunOf(WhiteSpace, t, pos)
        n == RunOf(DecimalDigits, t, d)
    IN  SubSeq(t, d, d + (IF n > 3 THEN 3 ELSE n) - 1)

\* "rgb" in either case at pos, then three channels, the first two with a comma
RgbAt(t, pos) ==
    /\ IsChar(t, pos, {"r", "R"})
    /\ IsChar(t, pos + 1, {"g", "G"})
    /\ IsChar(t, pos + 2, {"b", "B"})
    /\ ChannelEnd(t, pos + 3) # 0
    /\ ChannelEnd(t, ChannelEnd(t, pos + 3)) # 0
    /\ Len(ChannelDigits(t, ChannelEnd(t, ChannelEnd(t, pos + 3)))) >= 1

\* the same with exactly one space between "rgb" and the first digit
RgbOneSpaceAt(t, pos) ==
    /\ RgbAt(t, pos)
    /\ IsChar(t, pos + 3, {" "})
    /\ IsChar(t, pos + 4, DecimalDigits)

Decimal(ds) ==
    LET v(k) == CHOOSE n \in 0..9 : DigitChars[n + 1] = ds[k]
    IN  CASE Len(ds) = 1 -> v(1)
          [] Len(ds) = 2 -> 10 * v(1) + v(2)
          [] Len(ds) = 3 -> 100 * v(1) + 10 * v(2) + v(3)

\* the three channels of the occurrence at pos, as numbers
RgbValuesAt(t, pos) ==
    LET c1 == pos + 3
        c2 == ChannelEnd(t, c1)
        c3 == ChannelEnd(t, c2)
    IN  <<Decimal(ChannelDigits(t, c1)), Decimal(ChannelDigits(t, c2)),
          Decimal(ChannelDigits(t, c3))>>

First(S) == CHOOSE i \in S : \A j \in S : i <= j
RgbPositions(t) == {i \in DOMAIN t : RgbAt(t, i)}
RgbOneSpacePositions(t) == {i \in DOMAIN t : RgbOneSpaceAt(t, i)}

\* "#" at pos, then 6 hex digits
HexAt(t, pos) == IsChar(t, pos, {"#"}) /\ \A k \in 1..6 : IsChar(t, pos + k, HexDigits)
HexPositions(t) == {i \in DOMAIN t : HexAt(t, i)}

\* the records a written file spells
PersistedRecords(f) == loads_value(files[f].value)

\* C6 as stated: every record the scraper persists has a hex string of "#" and
\* 6 hex digits and an rgb of three integers in 0..255.
C6_PersistedRecordsValid ==
    \A f \in DOMAIN files : \A i \in DOMAIN PersistedRecords(f) :
        LET rec == PersistedRecords(f)[i]
        IN  /\ Len(rec.hex) = 7 /\ HexAt(rec.hex, 1)
            /\ Len(rec.rgb) = 3
            /\ \A k \in 1..3 : rec.rgb[k] \in 0..255

\* C7: when the text's first occurrence has channels of 1 to 3 digits, the
\* result is those three numbers as written, above 255 or not: never none,
\* never clamped.
C7_NoUpperBoundOnChannels ==
    ("rgb" \in exPc /\ RgbPositions(text) # {}) =>
        /\ rgbOut # None
        /\ rgbOut = RgbValuesAt(text, First(RgbPositions(text)))

C7_Witness ==
    /\ "rgb" \in exPc
    /\ text = RgbTestText
    /\ rgbOut = <<1, 2, 342>>
    /\ \E k \in 1..3 : rgbOut[k] > 255

\* C8 as stated: a triple is returned only for the first occurrence of "rgb"
\* followed by a single space and three comma-separated groups of 1 to 3
\* digits; with no space, or more than one white-space character, before the
\* first digit the result is none.
C8_SingleSpaceAsStated ==
    "rgb" \in exPc =>
        rgbOut = IF RgbOneSpacePositions(text) = {} THEN None
                 ELSE RgbValuesAt(text, First(RgbOneSpacePositions(text)))

\* C8 as amended: a triple is returned only for the first occurrence of "rgb"
\* (either case) followed by any white space, none included, and three groups
\* of 1 to 3 digits, the first two each followed by a comma and any white
\* space; with no such occurrence the result is none.
C8_FirstOccurrenceOrNone ==
    "rgb" \in exPc =>
        /\ rgbOut = None <=> RgbPositions(text) = {}
        /\ rgbOut # None =>
               \E i \in RgbPositions(text) :
                   /\ \A j \in RgbPositions(text) : i <= j
                   /\ rgbOut = RgbValuesAt(text, i)

C8_Witness ==
    /\ "rgb" \in exPc
    /\ rgbOut # None
    /\ First(RgbPositions(text)) > 1
    /\ IsChar(text, 1, {"r"})
    /\ ~IsChar(text, First(RgbPositions(text)) + 3, {" "})

\* C9: extract_hex_colour returns the leftmost "#" followed by 6 hex digits of
\* either case, the 7 characters as the text has them, and none when the text
\* has no such occurrence.
C9_FirstHexOrNone ==
    "hex" \in exPc =>
        hexOut = IF HexPositions(text) = {} THEN None
                 ELSE LET i == First(HexPositions(text)) IN SubSeq(text, i, i + 6)

C9_Witness ==
    /\ "hex" \in exPc
    /\ hexOut # None
    /\ Len(hexOut) = 7
    /\ IsChar(text, 1, {"#"})
    /\ First(HexPositions(text)) > 1
    /\ \E k \in 2..7 : hexOut[k] \in {"a", "b", "c", "d", "e", "f"}

\* the Colour a paragraph gives, and whether it gives one
GivesColour(p) ==
    /\ p.hasStrong
    /\ HexPositions(ParagraphText(p)) # {}
    /\ RgbPositions(ParagraphText(p)) # {}
ColourOf(p, base) ==
    LET t == ParagraphText(p)
        h == First(HexPositions(t))
    IN  [name |-> p.strong, base |-> base, hex |-> SubSeq(t, h, h + 6),
         rgb |-> RgbValuesAt(t, First(RgbPositions(t)))]

RECURSIVE ColoursOf(_, _)
ColoursOf(ps, base) ==
    IF ps = <<>> THEN <<>>
    ELSE (IF GivesColour(Head(ps)) THEN <<ColourOf(Head(ps), base)>> ELSE <<>>)
             \o ColoursOf(Tail(ps), base)

\* C10: a paragraph without a hex or an rgb match gives no record and no error
\* and the next paragraph is processed; a Colour is yielded for every paragraph
\* with a name element, a hex match and an rgb match, in page order.
C10_DroppedParagraphsAreSkipped ==
    (spc \in {"paragraphs", "loop", "done"} /\ famIdx > 0) =>
        /\ paraIdx \in 0..Len(page)
        /\ generated = ColoursOf(SubSeq(page, 1, paraIdx), colour_names[famIdx])
        /\ spc # "paragraphs" =>
               /\ paraIdx = Len(page)
               /\ generated = ColoursOf(page, colour_names[famIdx])

C10_Witness ==
    /\ spc = "loop"
    /\ Len(page) = 6
    /\ ~GivesColour(page[2]) /\ page[2].hasStrong
    /\ ~GivesColour(page[5]) /\ page[5].hasStrong
    /\ Len(generated) = 3
    /\ generated[1].name = page[1].strong
    /\ generated[2].name = page[3].strong
    /\ generated[3].name = page[6].strong

(***************************************************************************)
(* C11: the files of a run that completes.                                 *)
(***************************************************************************)
Families == 1..Len(colour_names)
FamilyFiles(S) == {OutputFileName(colour_names[i]) : i \in S}

\* C11 as stated: a scraper run that completes without a fault has written
\* exactly one file for each of the nine colour families, named after it.
C11_OneFilePerFamily ==
    spc = "done" => DOMAIN files = FamilyFiles(Families)

\* C11 amended: a scraper run that completes without a fault has written
\* exactly one file, named after the family, for each family in whose page
\* at least one colour was found, and no file for a family in whose page
\* none was found.
C11_OneFilePerFamilyWithColours ==
    spc = "done" =>
        /\ Len(printed) = Len(colour_names)
        /\ DOMAIN files = FamilyFiles({i \in Families : printed[i] > 0})
        /\ Cardinality(DOMAIN files) = Cardinality({i \in Families : printed[i] > 0})

\* a completed run in which some families had colours and some had none
C11_Witness ==
    /\ spc = "done"
    /\ \E i \in Families : printed[i] = 0
    /\ \E i \in Families : printed[i] > 0
    /\ Cardinality(DOMAIN files) \in 1..(Len(colour_names) - 1)

(***************************************************************************)
(* C12: the round trip of a list of records.                               *)
(***************************************************************************)
\* C12: a list of ColourId records written with save_to_json_gz_file and read
\* back with the reader's steps comes back with the same length and order,
\* every record with the same id, name, base and hex and the same three rgb
\* channel values in the same order.
C12_RoundTrip ==
    tpc = "read" =>
        /\ Len(loaded) = Len(colour_ids)
        /\ \A i \in DOMAIN colour_ids :
               /\ loaded[i].id = colour_ids[i].id
               /\ loaded[i].name = colour_ids[i].name
               /\ loaded[i].base = colour_ids[i].base
               /\ loaded[i].hex = colour_ids[i].hex
               /\ Len(loaded[i].rgb) = 3
               /\ \A k \in 1..3 : loaded[i].rgb[k] = colour_ids[i].rgb[k]

\* a list of three records, not all the same, one with a channel above 255
\* and one with a channel of 0, has been written and read back
C12_Witness ==
    /\ tpc = "read"
    /\ Len(colour_ids) = 3
    /\ Len(loaded) = 3
    /\ colour_ids[1] # colour_ids[2]
    /\ \E i \in 1..3 : colour_ids[i].rgb[3] > 255
    /\ \E i \in 1..3 : colour_ids[i].rgb[2] = 0
    /\ saved[TripFile].gzip

(***************************************************************************)
(* C13: the identifiers of the persisted records.                          *)
(***************************************************************************)
\* the places of the persisted records: file and position in its array
PersistedPlaces ==
    UNION {{<<f, i>> : i \in DOMAIN PersistedRecords(f)} : f \in DOMAIN files}
PersistedIds == {PersistedRecords(p[1])[p[2]].id : p \in PersistedPlaces}
FileOfFamily == OutputFileName(colour_names[famIdx])

\* C13: every persisted record carries an identifier that add_id_to_colour
\* generated in this run, no two persisted records, of one file or of two,
\* share an identifier, and the name, base, hex and rgb of a persisted record
\* are those of the Colour that was extracted.
C13_PersistedIdsUnique ==
    /\ Cardinality(PersistedIds) = Cardinality(PersistedPlaces)
    /\ PersistedIds \subseteq 1..(nextId - 1)
    /\ (spc = "loop" /\ famIdx >= 1 /\ Len(generated) > 0) =>
           /\ FileOfFamily \in DOMAIN files
           /\ Len(PersistedRecords(FileOfFamily)) = Len(generated)
           /\ \A i \in DOMAIN generated :
                  LET rec == PersistedRecords(FileOfFamily)[i]
                  IN  /\ rec.name = generated[i].name
                      /\ rec.base = generated[i].base
                      /\ rec.hex = generated[i].hex
                      /\ rec.rgb = generated[i].rgb

\* three files of three records each have been written, the last one just now
C13_Witness ==
    /\ spc = "loop"
    /\ Cardinality(DOMAIN files) = 3
    /\ Cardinality(PersistedPlaces) = 9
    /\ Len(generated) = 3
    /\ FileOfFamily \in DOMAIN files

(***************************************************************************)
(* C14: the format of the files.                                           *)
(***************************************************************************)
MemberKeys(obj) == {obj.members[i][1] : i \in DOMAIN obj.members}
IsStringToken(v) == v.kind = "string"
IsIntegerToken(v) ==
    /\ v.kind = "number"
    /\ Len(v.text) >= 1
    /\ \A i \in DOMAIN v.text : v.text[i] \in DecimalDigits

\* C14: every file the scraper writes is a gzip stream of a JSON array, every
\* element of which is an object with exactly the five keys id, name, base,
\* hex and rgb, each once, none of them an object, the rgb an array of
\* exactly 3 integers.
C14_FilesAreArraysOfFlatObjects ==
    \A f \in DOMAIN files :
        /\ files[f].gzip
        /\ files[f].json
        /\ files[f].value.kind = "array"
        /\ \A i \in DOMAIN files[f].value.items :
               LET obj == files[f].value.items[i]
               IN  /\ obj.kind = "object"
                   /\ MemberKeys(obj) = {"id", "name", "base", "hex", "rgb"}
                   /\ Len(obj.members) = 5
                   /\ \A m \in DOMAIN obj.members :
                          IF obj.members[m][1] = "rgb"
                          THEN /\ obj.members[m][2].kind = "array"
                               /\ Len(obj.members[m][2].items) = 3
                               /\ \A k \in 1..3 : IsIntegerToken(obj.members[m][2].items[k])
                          ELSE IsStringToken(obj.members[m][2])

\* two files have been written, one of them with three elements, one of
\* which has a channel of three digits
C14_Witness ==
    /\ Cardinality(DOMAIN files) = 2
    /\ \E f \in DOMAIN files :
           /\ Len(files[f].value.items) = 3
           /\ \E i \in 1..3 : Len(LastMember(files[f].value.items[i].members, "rgb").items[3].text) = 3

(***************************************************************************)
(* C15: the faults of the reader.                                          *)
(***************************************************************************)
ReaderFaults == {"fault_list", "fault_fetch", "fault_gzip", "fault_json"}
ObjectFaults == {"fault_fetch", "fault_gzip", "fault_json"}
BodyOf(k) == (CHOOSE e \in Range(bucket) : e.Key = k).Body
Decodes(k) == BodyOf(k).gzip /\ BodyOf(k).json
IsPrefix(a, b) == Len(a) <= Len(b) /\ a = SubSeq(b, 1, Len(a))

\* where a run that faulted stands: the failing key is the last one fetched,
\* and a run that got past a key had an object there that decodes
FaultedAt(pc, k, ys, r) ==
    /\ pc \in ObjectFaults => ys # <<>> /\ k = ys[Len(ys)]
    /\ pc = "fault_list" => ys = <<>>
    /\ pc = "fault_gzip" => ~BodyOf(k).gzip
    /\ pc = "fault_json" => BodyOf(k).gzip /\ ~BodyOf(k).json
    /\ pc \in ObjectFaults => IsPrefix(ys, list_s3_bucket_file_keys(r))
    /\ \A i \in DOMAIN ys : (i < Len(ys) \/ pc \in {"done", "printed", "fault_index"})
                                 => Decodes(ys[i])

\* C15: in the reader, a failure of the listing call, of an object fetch, of
\* decompression or of JSON parsing ends the run, loop or pipeline, as a fault:
\* the failing step is not retried or skipped, no key after the failing one
\* is fetched, and the run does not complete with a result list.
C15_FaultsEndTheRun ==
    /\ [](FaultedAt(rpc, s3_key, yielded, response)
            /\ FaultedAt(ppc, p_key, p_yielded, p_response)
            /\ (ppc \in ReaderFaults => pipeline_result = <<>>))
    /\ [][/\ rpc \in ReaderFaults => UNCHANGED loopVars
          /\ ppc \in ReaderFaults => UNCHANGED pipelineVars
          /\ (rpc = "fetch" /\ ~Decodes(s3_key)) => rpc' \in ObjectFaults \cup {"fetch"}
          /\ (ppc = "fetch" /\ ~Decodes(p_key)) => ppc' \in ObjectFaults \cup {"fetch"}]_vars

\* the loop and the pipeline have both stopped at the second of three keys,
\* whose object is not a gzip stream, the loop with records of the first
\* object in its list
C15_Witness ==
    /\ rpc = "fault_gzip"
    /\ ppc = "fault_gzip"
    /\ Len(list_s3_bucket_file_keys(response)) = 3
    /\ Len(yielded) = 2
    /\ Len(p_yielded) = 2
    /\ Len(result) > 0
    /\ pipeline_result = <<>>

(***************************************************************************)
(* C16: one object at a time.                                              *)
(***************************************************************************)
AllButLast(ys) == SubSeq(ys, 1, Len(ys) - 1)

\* where a run stands between two objects and within one: buf is the parsed
\* content it holds, n the number of its records that have been through the
\* filters, out the records kept so far
OneObjectAtATime(pc, ys, buf, n, out) ==
    /\ pc = "fetch" =>
           /\ n = Len(buf)
           /\ Len(ys) >= 2 => buf = RecordsOf(ys[Len(ys) - 1])
           /\ out = FilteredRecords(AllButLast(ys))
    /\ pc = "records" =>
           /\ buf = RecordsOf(ys[Len(ys)])
           /\ n \in 0..Len(buf)
           /\ out = FilteredRecords(AllButLast(ys)) \o SelectSeq(SubSeq(buf, 1, n), ReddishAndMuted)
    /\ buf = <<>> \/ \E i \in DOMAIN ys : buf = RecordsOf(ys[i])

\* C16: the reader, loop or pipeline, handles one object at a time: when the
\* fetch of the next key's object starts, every record of the object before
\* it has been produced and has been through the filters, and the parsed
\* content held at any point is that of one object, the latest that decoded,
\* however many keys are listed.
C16_OneObjectAtATime ==
    /\ OneObjectAtATime(rpc, yielded, json_data, recIdx, result)
    /\ OneObjectAtATime(ppc, p_yielded, p_json, p_recIdx, p_list)

\* the pipeline is about to fetch the third object, with the four records of
\* the second all through the filters; the loop went through three objects
C16_Witness ==
    /\ ppc = "fetch"
    /\ Len(p_yielded) = 3
    /\ Len(p_json) = 4
    /\ p_recIdx = 4
    /\ p_json = RecordsOf(p_yielded[2])
    /\ RecordsOf(p_yielded[1]) # p_json
    /\ Len(yielded) = 3
    /\ rpc = "printed"

(***************************************************************************)
(* C17: the listing is one page.                                           *)
(***************************************************************************)
\* the keys of the bucket that the first response does not carry
LaterPages == {bucket[i].Key : i \in (Len(KeysOf(list_objects_v2(bucket))) + 1)..Len(bucket)}
\* the family a key of the bucket belongs to
LaterFamilies ==
    {colour_names[i] : i \in (Len(KeysOf(list_objects_v2(bucket))) + 1)..Len(bucket)}

\* what a run, loop or pipeline, has of the listing: r its response, ys the
\* keys yielded, out the records kept
OnePage(pc, r, ys, out) ==
    /\ pc \notin {"start", "idle", "fault_list"} => r = list_objects_v2(bucket)
    /\ Len(KeysOf(r)) <= PageSize
    /\ \A i \in DOMAIN ys : ys[i] \in Range(KeysOf(r)) /\ ys[i] \notin LaterPages
    /\ \A i \in DOMAIN out : out[i].base \notin LaterFamilies

Completed(pc) == pc \in {"done", "printed", "fault_index"}

\* C18: on a listing and objects on which neither run fails, the pipeline
\* and the loop give the same result list, the same records in the same
\* order (and so the same outcome of the print that follows).
C18_PipelineEqualsLoop ==
    (Completed(rpc) /\ Completed(ppc)) =>
        /\ pipeline_result = result
        /\ p_yielded = yielded
        /\ (rpc = "printed" /\ ppc # "done") => ppc = "printed"
        /\ (rpc = "fault_index" /\ ppc # "done") => ppc = "fault_index"

\* both runs completed on three objects, of which one has no record and the
\* others records that pass and records that do not
C18_Witness ==
    /\ rpc = "printed"
    /\ ppc = "printed"
    /\ Len(yielded) = 3
    /\ \E i \in 1..3 : RecordsOf(yielded[i]) = <<>>
    /\ \E i \in 1..3 : Len(FilteredRecords(<<yielded[i]>>)) \in 1..3
    /\ Len(pipeline_result) >= 2
    /\ \E i \in DOMAIN bucket : ~NotFolder(bucket[i].Key)

(***************************************************************************)
(* C20: the order of the scraper's files, and a fault.                     *)
(***************************************************************************)
\* the families whose turn is over
FamiliesDone == 1..(IF spc \in {"loop", "done"} THEN famIdx ELSE famIdx - 1)

\* C20: the scraper takes the families in the order of the list; a family's
\* file is written only when the family's page has been fetched and all its
\* paragraphs gone through; when the fetch for a family faults, the files of
\* the families before it stay as they are and no file is written for that
\* family or a later one.
C20_FilesInOrderNoRollback ==
    /\ [](/\ famIdx \in 0..Len(colour_names)
          /\ Len(printed) = Cardinality(FamiliesDone)
          /\ DOMAIN files \subseteq FamilyFiles(FamiliesDone))
    /\ [][/\ famIdx' \in {famIdx, famIdx + 1}
          /\ \A f \in DOMAIN files : f \in DOMAIN files' /\ files'[f] = files[f]
          /\ files' # files =>
                 /\ spc = "paragraphs"
                 /\ paraIdx = Len(page)
                 /\ DOMAIN files' = DOMAIN files \cup {FileOfFamily}
          /\ spc' = "fault" => files' = files
          /\ spc = "fault" => UNCHANGED scraperVars]_vars

\* the fetch for the fifth family faulted after files were written for some,
\* not all, of the four before it
C20_Witness ==
    /\ spc = "fault"
    /\ famIdx = 5
    /\ Cardinality(DOMAIN files) \in 2..3
    /\ OutputFileName(colour_names[4]) \in DOMAIN files
    /\ Len(printed) = 4

(***************************************************************************)
(* C21: the base of the records of a file.                                 *)
(***************************************************************************)
\* C21: every record of the file written for a colour family has that
\* family as its base: no file holds records of two families, and the base
\* of a record is the family in the name of the file it is stored in.
C21_BaseIsFamilyOfFile ==
    /\ DOMAIN files \subseteq FamilyFiles(Families)
    /\ \A i \in Families :
           OutputFileName(colour_names[i]) \in DOMAIN files =>
               \A k \in DOMAIN PersistedRecords(OutputFileName(colour_names[i])) :
                   PersistedRecords(OutputFileName(colour_names[i]))[k].base = colour_names[i]

\* the files of two families other than red have been written, each with
\* three records
C21_Witness ==
    /\ \E i, j \in Families \ {8} :
           /\ i < j
           /\ DOMAIN files = FamilyFiles({i, j})
           /\ Len(PersistedRecords(OutputFileName(colour_names[i]))) = 3
           /\ Len(PersistedRecords(OutputFileName(colour_names[j]))) = 3
           /\ PersistedRecords(OutputFileName(colour_names[i]))[1].base
                  # PersistedRecords(OutputFileName(colour_names[j]))[1].base
    /\ spc = "done"

====
